---- MODULE Spec2Model ----
(***************************************************************************)
(* Itinerary construction engine of the Daejeon Smart Date Planner:        *)
(* generateCourse (src/src/utils/courseGenerator.ts) with its candidate    *)
(* filter findPlaceForTime and the scoring function calculatePlaceScore.   *)
(*                                                                         *)
(* Units.  A Date is the number of seconds since midnight of the start     *)
(* day.  Durations that the source keeps in (fractional) minutes are kept  *)
(* in seconds.  Coordinates: every venue lies on one meridian, `pos' is    *)
(* its place on it in 1/60 km, so that the great-circle distance of two    *)
(* venues is the difference of their positions.  Walking 1/60 km takes     *)
(* 12 s and driving it 3 s, hence every time is a whole number of seconds. *)
(* Preference and feature vectors are in tenths, scores in thousandths of  *)
(* a point.                                                                *)
(***************************************************************************)
EXTENDS Integers, Sequences, FiniteSets, TLC

\* ------------------------------------------------------------------------
\* Bounds of the model
\* ------------------------------------------------------------------------
MaxMustVisit == 2

\* calls of updateUserVector in a row
MaxCalls == 4

\* ------------------------------------------------------------------------
\* Venues (type Place).  estimatedDuration is in minutes, 0 when absent;
\* name and description are the sets of keywords the text contains.
\* ------------------------------------------------------------------------
NoPlace == [id |-> "null"]

MkPlace(id, type, pos, isIndoor, mealType, estimatedDuration, name, description) ==
  [id |-> id, type |-> type, pos |-> pos, isIndoor |-> isIndoor, mealType |-> mealType,
   estimatedDuration |-> estimatedDuration, name |-> name, description |-> description]

PlaceA == MkPlace("A", "landmark",   0,   FALSE, "none",   0,  {"city hall"}, {})
PlaceB == MkPlace("B", "activity",   18,  TRUE,  "none",   60, {"bowling"}, {"active"})
PlaceC == MkPlace("C", "cafe",       40,  TRUE,  "cafe",   45, {"lounge"}, {"quiet"})
PlaceL == MkPlace("L", "restaurant", 23,  TRUE,  "lunch",  60, {"noodle"}, {})
PlaceD == MkPlace("D", "restaurant", 61,  TRUE,  "dinner", 0,  {"steak"}, {"romantic"})
PlaceK == MkPlace("K", "bakery",     100, TRUE,  "none",   30, {"bakery"}, {"bread"})
PlaceF == MkPlace("F", "culture",    150, TRUE,  "none",   60, {"museum"}, {})
PlaceP == MkPlace("P", "shopping",   0,   FALSE, "none",   0,  {"market"}, {"park"})

Catalogue == <<PlaceA, PlaceB, PlaceC, PlaceL, PlaceD, PlaceK, PlaceF, PlaceP>>

\* venues of the other pools: two activity venues with the stays of 75 and
\* 119 minutes, and a venue that differs from PlaceB in its id only
PlaceH == MkPlace("H", "activity",   10,  TRUE,  "none",   75,  {"arcade"}, {})
PlaceG == MkPlace("G", "activity",   30,  TRUE,  "none",   119, {"climbing"}, {})
PlaceT == MkPlace("T", "activity",   18,  TRUE,  "none",   60, {"bowling"}, {"active"})

\* two restaurants that carry no mealType
PlaceR == MkPlace("R", "restaurant", 35,  TRUE,  "none",   30, {"diner"}, {})
PlaceS == MkPlace("S", "restaurant", 25,  TRUE,  "none",   30, {"bistro"}, {})

\* four cafes with stays of 30 minutes
PlaceU == MkPlace("U", "cafe",       20,  TRUE,  "cafe",   30, {"espresso"}, {})
PlaceV == MkPlace("V", "cafe",       30,  TRUE,  "cafe",   30, {"tea house"}, {})
PlaceW == MkPlace("W", "cafe",       45,  TRUE,  "cafe",   30, {"roastery"}, {})
PlaceX == MkPlace("X", "cafe",       55,  TRUE,  "cafe",   30, {"dessert"}, {})

\* a second landmark and a bar, both next to the start venue
PlaceM == MkPlace("M", "landmark",   6,   FALSE, "none",   30, {"tower"}, {})
PlaceN == MkPlace("N", "bar",        8,   TRUE,  "dinner", 30, {"pub"}, {})
LongStayPool == <<PlaceA, PlaceH, PlaceG, PlaceL>>
NightPool == <<PlaceA, PlaceM, PlaceN, PlaceB>>

CafePool == <<PlaceA, PlaceL, PlaceU, PlaceV, PlaceW, PlaceX>>

UntypedPool == <<PlaceA, PlaceG, PlaceR, PlaceS>>

TwinPool == <<PlaceA, PlaceT, PlaceB, PlaceC>>

Venues == {PlaceA, PlaceB, PlaceC, PlaceL, PlaceD, PlaceK, PlaceF, PlaceP, PlaceH, PlaceG, PlaceT, PlaceR, PlaceS,
           PlaceU, PlaceV, PlaceW, PlaceX, PlaceM, PlaceN}

Range(s) == {s[i] : i \in 1..Len(s)}

Reverse(s) == [i \in 1..Len(s) |-> s[Len(s) + 1 - i]]

SeqUpTo(S, n) == UNION {[1..k -> S] : k \in 0..n}

Abs(x) == IF x < 0 THEN -x ELSE x

Min(a, b) == IF a < b THEN a ELSE b

Max(a, b) == IF a > b THEN a ELSE b

\* ------------------------------------------------------------------------
\* Time and distance
\* ------------------------------------------------------------------------
DEFAULT_LUNCH_WINDOW == [startMinutes |-> 11 * 60 + 30, endMinutes |-> 13 * 60 + 30]

DEFAULT_DINNER_WINDOW == [startMinutes |-> 17 * 60, endMinutes |-> 19 * 60 + 30]

\* getHours() * 60 + getMinutes(): the seconds of the date are dropped
minutesSinceMidnight(date) == (date \div 60) % 1440

\* `seconds' is the source's `minutes' times 60
addMinutes(date, seconds) == date + seconds

\* new Date(date) followed by setHours(floor(m / 60), m % 60, 0, 0):
\* same calendar day, minute m of that day, zero seconds
setHours(date, m) == (date \div 86400) * 86400 + ((m \div 60) * 60 + (m % 60)) * 60

\* distance in 1/60 km
haversineDistance(from, to) == Abs(to.pos - from.pos)

\* 1.5 km
FootLimit == 90

\* result in seconds: 12 min/km on foot capped at 90 min, 3 min/km by car
\* capped at 60 min plus 10 min of parking
travelMinutes(distanceKm, transport) ==
  IF transport = "car"
    THEN Min(60 * 60, distanceKm * 3) + 10 * 60
    ELSE Min(90 * 60, distanceKm * 12)

\* ------------------------------------------------------------------------
\* Preference vector model
\* ------------------------------------------------------------------------
VECTOR_DIMENSIONS ==
  <<"Meat", "Seafood", "Noodle", "Rice", "Bread", "Quiet", "Active", "Indoor", "Nature", "Luxury">>

Dims == Range(VECTOR_DIMENSIONS)

INITIAL_USER_VECTOR == [d \in Dims |-> 5]

INITIAL_PREFERENCES ==
  [k \in {"Meat", "Seafood", "Quiet", "Active", "Indoor", "Outdoor", "Gourmet",
          "Nightlife", "Shopping", "Culture", "Cafe"} |-> 10]

\* text.includes(kw) for one of the keywords
IncludesAny(text, kws) == text \cap kws # {}

placeToFeatureVector(place) ==
  LET combinedText == place.name \cup place.description
      luxury == IF IncludesAny(combinedText, {"luxury", "premium", "fine dining", "gourmet"}) THEN 10
                ELSE IF IncludesAny(combinedText, {"steak", "lounge", "dining"}) THEN 8
                ELSE 5
      nature == IF IncludesAny(combinedText, {"park", "garden", "nature"}) \/ place.type = "landmark" THEN 8
                ELSE IF ~place.isIndoor THEN 10
                ELSE 5
  IN [d \in Dims |->
       CASE d = "Meat"    -> IF IncludesAny(combinedText, {"steak", "meat", "bbq", "grill"}) THEN 10 ELSE 5
         [] d = "Seafood" -> IF IncludesAny(combinedText, {"seafood", "fish", "sushi", "sashimi"}) THEN 10 ELSE 5
         [] d = "Noodle"  -> IF IncludesAny(combinedText, {"noodle", "ramen", "udon", "soba"}) THEN 10 ELSE 5
         [] d = "Rice"    -> IF IncludesAny(combinedText, {"rice", "bibimbap", "gukbap"}) THEN 10 ELSE 5
         [] d = "Bread"   -> IF place.type = "bakery" \/ IncludesAny(combinedText, {"bread", "bakery", "pastry"})
                               THEN 10 ELSE 5
         [] d = "Quiet"   -> IF IncludesAny(combinedText, {"quiet", "peaceful", "serene"}) \/ place.type = "culture"
                               THEN 10 ELSE 5
         [] d = "Active"  -> IF IncludesAny(combinedText, {"active", "sport", "adventure"}) \/ place.type = "activity"
                               THEN 10 ELSE 5
         [] d = "Indoor"  -> IF place.isIndoor THEN 10 ELSE 5
         [] d = "Nature"  -> nature
         [] d = "Luxury"  -> luxury]

\* largest r in lo..hi with r * r <= n
RECURSIVE ISqrt(_, _, _)
ISqrt(n, lo, hi) ==
  IF lo >= hi THEN lo
  ELSE LET mid == (lo + hi + 1) \div 2
       IN IF mid * mid <= n THEN ISqrt(n, mid, hi) ELSE ISqrt(n, lo, mid - 1)

\* vecA[dim] || 0
Component(vec, dim) == IF dim \in DOMAIN vec THEN vec[dim] ELSE 0

\* the sum over the first i dimensions of vecA[dim] * vecB[dim]
RECURSIVE Dot(_, _, _)
Dot(vecA, vecB, i) ==
  IF i = 0 THEN 0
  ELSE Component(vecA, VECTOR_DIMENSIONS[i]) * Component(vecB, VECTOR_DIMENSIONS[i]) + Dot(vecA, vecB, i - 1)

\* similarity times 10^5, the vectors being in tenths
cosineSimilarity(vecA, vecB) ==
  LET dotProduct == Dot(vecA, vecB, Len(VECTOR_DIMENSIONS))
      normA == Dot(vecA, vecA, Len(VECTOR_DIMENSIONS))
      normB == Dot(vecB, vecB, Len(VECTOR_DIMENSIONS))
      denominator == ISqrt(normA * normB * 100, 0, 10000)
  IN IF normA = 0 \/ normB = 0 THEN 0 ELSE (dotProduct * 1000000) \div denominator

\* a user vector after some feedback
TasteVector == [d \in Dims |-> CASE d = "Meat" -> 9 [] d = "Quiet" -> 1 [] d = "Bread" -> 7 [] OTHER -> 5]

\* the user vectors and venues of the model; the pure functions of a user
\* vector and a venue are evaluated once for each of them
UserVectors == {INITIAL_USER_VECTOR, TasteVector}

SimilarityTable ==
  [u \in UserVectors, p \in Venues |-> cosineSimilarity(u, placeToFeatureVector(p))]

\* ------------------------------------------------------------------------
\* updateUserVector.  Here a vector holds ten-thousandths, so that
\* toFixed(3) has digits to round away.
\* ------------------------------------------------------------------------
NeutralVector == [d \in Dims |-> 5000]

\* parseFloat(x.toFixed(3)): the nearest thousandth
ToFixed3(x) == IF x < 0 THEN -(((-x + 5) \div 10) * 10) ELSE ((x + 5) \div 10) * 10

Delta(action) == IF action = "LIKE" THEN 1000 ELSE -2000

\* updateUserVector without Math.max(0.0, Math.min(1.0, ...))
updateUserVector_NoClamp(place, action, current) ==
  [dim \in Dims |->
     IF placeToFeatureVector(place)[dim] > 0 THEN ToFixed3(current[dim] + Delta(action)) ELSE current[dim]]

updateUserVector(place, action, current) ==
  LET placeVector == placeToFeatureVector(place)
      delta == Delta(action)
  IN [dim \in Dims |->
        IF placeVector[dim] > 0
          THEN Max(0, Min(10000, ToFixed3(current[dim] + delta)))
          ELSE current[dim]]

\* ------------------------------------------------------------------------
\* Scoring function, in thousandths of a point
\* ------------------------------------------------------------------------
KEYWORD_BONUS == {"steak", "pasta", "sushi", "dining", "lounge", "bakery"}

CHAIN_PENALTY == {"bhc", "bbq", "lotteria", "mcdonald", "burger king", "gukbap"}

isIndoor(place) == place.isIndoor

\* x * 0.5^typeCount
RECURSIVE Pow05(_, _)
Pow05(x, typeCount) == IF typeCount = 0 THEN x ELSE Pow05((x * 5) \div 10, typeCount - 1)

\* x * 0.6^typeCount
RECURSIVE Pow06(_, _)
Pow06(x, typeCount) == IF typeCount = 0 THEN x ELSE Pow06((x * 6) \div 10, typeCount - 1)

\* the multiplier 0.6^typeCount, times 10^4
calculateDiversityPenalty(place, selectedPlaces) ==
  IF Len(selectedPlaces) = 0 THEN 10000
  ELSE LET typeCount == Cardinality({i \in 1..Len(selectedPlaces) : selectedPlaces[i].type = place.type})
       IN Pow06(10000, typeCount)

calculateWeatherPenalty(isRainy, temperature, isOutdoor) ==
  (IF isRainy THEN (IF isOutdoor THEN -200000 ELSE 30000) ELSE 0)
  + (IF temperature > 30 \/ temperature < 0 THEN (IF isOutdoor THEN -50000 ELSE 0) ELSE 0)

\* (e^(n/m) - 1) * 10^6 by its power series, every term truncated
RECURSIVE ExpSeries(_, _, _, _)
ExpSeries(term, n, m, k) ==
  IF term = 0 THEN 0 ELSE term + ExpSeries((term * n) \div (m * k), n, m, k + 1)

ExpM1(n, m) == ExpSeries((1000000 * n) \div m, n, m, 2)

\* the largest distance between two venues of the model
MaxDistance == PlaceF.pos - PlaceA.pos

\* distanceKm in 1/60 km, so distanceKm / 5 km is distanceKm / 300;
\* evaluated once for each distance
FootPenalty == [d \in 0..FootLimit |-> -Max(0, (ExpM1(d, 300) * 30) \div 1000)]

CarPenalty == [d \in 0..MaxDistance |-> -Max(0, (ExpM1(d, 600) * 20) \div 1000)]

calculateDistancePenalty(distanceKm, transport) ==
  IF transport = "foot"
    THEN IF distanceKm > FootLimit THEN -200000 ELSE FootPenalty[distanceKm]
    ELSE CarPenalty[distanceKm]

calculateCompanionBonus(place, companion) ==
  CASE companion = "partner" ->
         (IF place.type \in {"restaurant", "cafe", "bar"} THEN 30000 ELSE 0)
         + (IF IncludesAny(place.name, {"romantic", "date", "couple"}) THEN 40000 ELSE 0)
         - (IF IncludesAny(place.name, {"family", "kids", "playground"}) THEN 50000 ELSE 0)
    [] companion = "family" ->
         (IF place.isIndoor THEN 20000 ELSE 0)
         + (IF place.type \in {"activity", "landmark", "shopping"} THEN 25000 ELSE 0)
         - (IF place.type = "bar" THEN 100000 ELSE 0)
         - (IF IncludesAny(place.name, {"bar", "pub", "club"}) THEN 80000 ELSE 0)
    [] companion = "friend" ->
         (IF place.type \in {"cafe", "activity", "shopping"} THEN 20000 ELSE 0)
    [] companion = "solo" ->
         (IF place.type \in {"cafe", "culture", "landmark"} THEN 15000 ELSE 0)
    [] OTHER -> 0

calculateKeywordScore(place) ==
  (IF IncludesAny(place.name, KEYWORD_BONUS) THEN 20000 ELSE 0)
  - (IF IncludesAny(place.name, CHAIN_PENALTY) THEN 100000 ELSE 0)

\* context: [userVector, isRainy, temperature, distanceKm, selectedPlaces, companion, transport]
calculatePlaceScore(place, context) ==
  LET \* cosineSimilarity(context.userVector, placeToFeatureVector(place))
      similarityScore == SimilarityTable[context.userVector, place]
      diversityMultiplier == calculateDiversityPenalty(place, context.selectedPlaces)
      outdoor == ~isIndoor(place)
  IN (similarityScore * diversityMultiplier) \div 10000
     + calculateWeatherPenalty(context.isRainy, context.temperature, outdoor)
     + calculateKeywordScore(place)
     + calculateDistancePenalty(context.distanceKm, context.transport)
     + calculateCompanionBonus(place, context.companion)

\* ------------------------------------------------------------------------
\* Candidate filter and scored selection
\* ------------------------------------------------------------------------
NoWindow == [startMinutes |-> -1, endMinutes |-> -1]

\* mealWindows?.lunch ?? DEFAULT_LUNCH_WINDOW
LunchWindowOf(mealWindows) ==
  IF "lunch" \in DOMAIN mealWindows THEN mealWindows.lunch ELSE DEFAULT_LUNCH_WINDOW

DinnerWindowOf(mealWindows) ==
  IF "dinner" \in DOMAIN mealWindows THEN mealWindows.dinner ELSE DEFAULT_DINNER_WINDOW

\* the step kinds without the cafe break of the afternoon
StepForTime_NoCafeBreak(currentTime, mealWindows, hasHadLunch, hasHadDinner) ==
  LET currentMinutes == minutesSinceMidnight(currentTime)
      lunchWindow == LunchWindowOf(mealWindows)
      dinnerWindow == DinnerWindowOf(mealWindows)
  IN IF ~hasHadLunch /\ currentMinutes >= lunchWindow.startMinutes
        /\ currentMinutes <= lunchWindow.endMinutes
       THEN [preferredTypes |-> {"restaurant"}, mealType |-> "lunch",
             window |-> lunchWindow, isMeal |-> TRUE]
     ELSE IF ~hasHadDinner /\ currentMinutes >= dinnerWindow.startMinutes
        /\ currentMinutes <= dinnerWindow.endMinutes
       THEN [preferredTypes |-> {"restaurant"}, mealType |-> "dinner",
             window |-> dinnerWindow, isMeal |-> TRUE]
     ELSE [preferredTypes |-> {"activity", "cafe", "culture", "shopping"}, mealType |-> "none",
           window |-> NoWindow, isMeal |-> FALSE]

\* findPlaceForTime with landmark and bar among the default categories
StepForTime_WithLandmarkAndBar(currentTime, mealWindows, hasHadLunch, hasHadDinner) ==
  LET currentMinutes == minutesSinceMidnight(currentTime)
      lunchWindow == LunchWindowOf(mealWindows)
      dinnerWindow == DinnerWindowOf(mealWindows)
  IN IF ~hasHadLunch /\ currentMinutes >= lunchWindow.startMinutes
        /\ currentMinutes <= lunchWindow.endMinutes
       THEN [preferredTypes |-> {"restaurant"}, mealType |-> "lunch",
             window |-> lunchWindow, isMeal |-> TRUE]
     ELSE IF ~hasHadDinner /\ currentMinutes >= dinnerWindow.startMinutes
        /\ currentMinutes <= dinnerWindow.endMinutes
       THEN [preferredTypes |-> {"restaurant"}, mealType |-> "dinner",
             window |-> dinnerWindow, isMeal |-> TRUE]
     ELSE IF currentMinutes > lunchWindow.endMinutes /\ currentMinutes < dinnerWindow.startMinutes
       THEN [preferredTypes |-> {"cafe", "bakery"}, mealType |-> "cafe",
             window |-> NoWindow, isMeal |-> FALSE]
     ELSE [preferredTypes |-> {"activity", "cafe", "culture", "shopping", "landmark", "bar"},
           mealType |-> "none", window |-> NoWindow, isMeal |-> FALSE]

\* the kind of step findPlaceForTime opens at currentTime
StepForTime(currentTime, mealWindows, hasHadLunch, hasHadDinner) ==
  LET currentMinutes == minutesSinceMidnight(currentTime)
      lunchWindow == LunchWindowOf(mealWindows)
      dinnerWindow == DinnerWindowOf(mealWindows)
  IN IF ~hasHadLunch /\ currentMinutes >= lunchWindow.startMinutes
        /\ currentMinutes <= lunchWindow.endMinutes
       THEN [preferredTypes |-> {"restaurant"}, mealType |-> "lunch",
             window |-> lunchWindow, isMeal |-> TRUE]
     ELSE IF ~hasHadDinner /\ currentMinutes >= dinnerWindow.startMinutes
        /\ currentMinutes <= dinnerWindow.endMinutes
       THEN [preferredTypes |-> {"restaurant"}, mealType |-> "dinner",
             window |-> dinnerWindow, isMeal |-> TRUE]
     ELSE IF currentMinutes > lunchWindow.endMinutes /\ currentMinutes < dinnerWindow.startMinutes
       THEN [preferredTypes |-> {"cafe", "bakery"}, mealType |-> "cafe",
             window |-> NoWindow, isMeal |-> FALSE]
     ELSE [preferredTypes |-> {"activity", "cafe", "culture", "shopping"}, mealType |-> "none",
           window |-> NoWindow, isMeal |-> FALSE]

\* the filter without its test of the visited set
IsCandidate_IgnoresVisited(p, step, visited) ==
  IF step.isMeal
    THEN p.type \in step.preferredTypes
         /\ (step.mealType = "none" \/ p.mealType = "none" \/ p.mealType = step.mealType)
    ELSE p.type \in step.preferredTypes /\ p.type # "restaurant"

\* the filter of allPlaces at the head of findPlaceForTime
IsCandidate(p, step, visited) ==
  /\ p.id \notin visited
  /\ IF step.isMeal
       THEN p.type \in step.preferredTypes
            /\ (step.mealType = "none" \/ p.mealType = "none" \/ p.mealType = step.mealType)
       ELSE p.type \in step.preferredTypes /\ p.type # "restaurant"

\* TimingWith(..., cutoff, limit): one turn of the scoring loop, with the
\* transport cutoff applied iff cutoff and the maximum end time iff limit
TimingWith(place, step, currentTime, from, transport, baseDuration, maxEndTime, cutoff, limit) ==
  LET distanceKm == haversineDistance(from, place)
      travelTime == travelMinutes(distanceKm, transport)
      arriveAt == addMinutes(currentTime, travelTime)
      arriveMinutes == minutesSinceMidnight(arriveAt)
      hasWindow == step.window # NoWindow
      startAt == IF hasWindow
                   THEN setHours(arriveAt, Max(arriveMinutes, step.window.startMinutes))
                   ELSE arriveAt
      duration == IF place.estimatedDuration # 0 THEN place.estimatedDuration ELSE baseDuration
      endAt == addMinutes(startAt, duration * 60)
  IN [ok |-> /\ ~(cutoff /\ transport = "foot" /\ distanceKm > FootLimit)
             /\ ~(hasWindow /\ arriveMinutes > step.window.endMinutes)
             /\ ~(limit /\ endAt > maxEndTime),
      distanceKm |-> distanceKm, arriveAt |-> arriveAt, startAt |-> startAt, endAt |-> endAt]

\* the scoring loop without `if (maxEndTime && endAt > maxEndTime) continue'
Timing_NoMaxEndTime(place, step, currentTime, from, transport, baseDuration, maxEndTime) ==
  TimingWith(place, step, currentTime, from, transport, baseDuration, maxEndTime, TRUE, FALSE)

\* the scoring loop without `if (transport === 'foot' && distanceKm > 1.5) continue'
Timing_NoFootCutoff(place, step, currentTime, from, transport, baseDuration, maxEndTime) ==
  TimingWith(place, step, currentTime, from, transport, baseDuration, maxEndTime, FALSE, TRUE)

\* one turn of the scoring loop: the times of the candidate and whether it
\* survives the transport cutoff, the meal window and the maximum end time
Timing(place, step, currentTime, from, transport, baseDuration, maxEndTime) ==
  LET distanceKm == haversineDistance(from, place)
      travelTime == travelMinutes(distanceKm, transport)
      arriveAt == addMinutes(currentTime, travelTime)
      arriveMinutes == minutesSinceMidnight(arriveAt)
      hasWindow == step.window # NoWindow
      startAt == IF hasWindow
                   THEN setHours(arriveAt, Max(arriveMinutes, step.window.startMinutes))
                   ELSE arriveAt
      duration == IF place.estimatedDuration # 0 THEN place.estimatedDuration ELSE baseDuration
      endAt == addMinutes(startAt, duration * 60)
  IN [ok |-> /\ ~(transport = "foot" /\ distanceKm > FootLimit)
             /\ ~(hasWindow /\ arriveMinutes > step.window.endMinutes)
             /\ ~(endAt > maxEndTime),
      distanceKm |-> distanceKm, arriveAt |-> arriveAt, startAt |-> startAt, endAt |-> endAt]

NoResult == [found |-> FALSE]

\* the scan with `score >= best.score': the last of the best candidates wins
RECURSIVE BestFrom_LastWins(_, _, _)
BestFrom_LastWins(scored, i, best) ==
  IF i > Len(scored) THEN best
  ELSE IF scored[i].ok /\ (IF best.found THEN scored[i].score >= best.score ELSE TRUE)
         THEN BestFrom_LastWins(scored, i + 1, [scored[i] EXCEPT !.found = TRUE])
         ELSE BestFrom_LastWins(scored, i + 1, best)

\* the scan `if (!best || score > best.score) best = ...' over the candidates from index i on
RECURSIVE BestFrom(_, _, _)
BestFrom(scored, i, best) ==
  IF i > Len(scored) THEN best
  ELSE IF scored[i].ok /\ (IF best.found THEN scored[i].score > best.score ELSE TRUE)
         THEN BestFrom(scored, i + 1, [scored[i] EXCEPT !.found = TRUE])
         ELSE BestFrom(scored, i + 1, best)

\* isRainy and temperature are the values of weather.isRainy and weather.temp
\* that the caller passes
findPlaceForTime(currentTime, from, allPlaces, visited, mealWindows, transport, baseDuration, maxEndTime, hasHadLunch, hasHadDinner, userVector, selectedPlaces, companion, isRainy, temperature) ==
  LET step == StepForTime(currentTime, mealWindows, hasHadLunch, hasHadDinner)
      candidates == SelectSeq(allPlaces, LAMBDA p : IsCandidate(p, step, visited))
      scored == [i \in 1..Len(candidates) |->
                  LET place == candidates[i]
                      t == Timing(place, step, currentTime, from, transport, baseDuration, maxEndTime)
                  IN [found |-> FALSE, ok |-> t.ok, place |-> place, distanceKm |-> t.distanceKm,
                      arriveAt |-> t.arriveAt, startAt |-> t.startAt, endAt |-> t.endAt,
                      isMeal |-> step.isMeal,
                      score |-> IF t.ok
                                  THEN calculatePlaceScore(place,
                                         [userVector |-> userVector, isRainy |-> isRainy,
                                          temperature |-> temperature, distanceKm |-> t.distanceKm,
                                          selectedPlaces |-> selectedPlaces, companion |-> companion,
                                          transport |-> transport])
                                  ELSE 0]]
  \* the candidates are scored once, then scanned
  IN CHOOSE best \in {BestFrom(table, 1, NoResult) : table \in {scored}} : TRUE

\* ------------------------------------------------------------------------
\* Inputs of one call generateCourse(allPlaces, options)
\* ------------------------------------------------------------------------
NoTime == -1

NoWeather == [defined |-> FALSE]

Weather(temp, isRainy) == [defined |-> TRUE, temp |-> temp, isRainy |-> isRainy]

AnchorChoices == {PlaceA, PlaceC, PlaceL, PlaceF}

EndChoices == {NoPlace, PlaceA, PlaceC, PlaceF, PlaceP}

StartTimes == {10 * 3600, 13 * 3600 + 26 * 60}

Durations == {2, 3, 6}

\* the options the routing is explored under all combinations of, and the
\* options that are varied one at a time from the defaults of the app
BaseVariant ==
  [startLocation |-> PlaceA, userPreferences |-> INITIAL_USER_VECTOR, weather |-> Weather(20, FALSE),
   endOffset |-> NoTime, lockedSteps |-> <<>>, companion |-> "solo", intensity |-> "relaxed",
   allPlaces |-> Catalogue]

Variants ==
  {BaseVariant,
   [BaseVariant EXCEPT !.startLocation = NoPlace],
   [BaseVariant EXCEPT !.intensity = "packed"],
   [BaseVariant EXCEPT !.userPreferences = TasteVector],
   [BaseVariant EXCEPT !.userPreferences = INITIAL_PREFERENCES],
   [BaseVariant EXCEPT !.weather = Weather(33, TRUE)],
   [BaseVariant EXCEPT !.weather = NoWeather],
   [BaseVariant EXCEPT !.endOffset = 150 * 60],
   [BaseVariant EXCEPT !.endOffset = 0],
   [BaseVariant EXCEPT !.endOffset = -30 * 60],
   [BaseVariant EXCEPT !.lockedSteps = (1 :> PlaceC)],
   [BaseVariant EXCEPT !.lockedSteps = (2 :> PlaceB)],
   [BaseVariant EXCEPT !.companion = "partner"],
   [BaseVariant EXCEPT !.allPlaces = Reverse(Catalogue)],
   [BaseVariant EXCEPT !.allPlaces = <<PlaceA, PlaceB>>],
   [BaseVariant EXCEPT !.allPlaces = LongStayPool],
   [BaseVariant EXCEPT !.allPlaces = TwinPool],
   [BaseVariant EXCEPT !.allPlaces = UntypedPool],
   [BaseVariant EXCEPT !.allPlaces = CafePool],
   [BaseVariant EXCEPT !.allPlaces = NightPool]}

MkOptions(v, startTime, endLocation, mustVisitPlaces, transport, duration) ==
  [startLocation |-> v.startLocation, userPreferences |-> v.userPreferences, weather |-> v.weather,
   startTime |-> startTime, endLocation |-> endLocation,
   endTime |-> IF v.endOffset = NoTime THEN NoTime ELSE startTime + v.endOffset,
   mustVisitPlaces |-> mustVisitPlaces, lockedSteps |-> v.lockedSteps,
   mealWindows |-> [lunch |-> DEFAULT_LUNCH_WINDOW, dinner |-> DEFAULT_DINNER_WINDOW],
   companion |-> v.companion, transport |-> transport, intensity |-> v.intensity, duration |-> duration]

\* ------------------------------------------------------------------------
\* State of generateCourse
\* ------------------------------------------------------------------------
VARIABLES
  allPlaces,       \* the venue pool passed to the call
  options,         \* the options passed to the call
  pc,              \* "start", "anchors" (step 1), "fill" (step 2), "done"
  result,          \* what the call returned or threw
  userVector,
  sequence,
  courseSteps,     \* each step also records its arrival time and how it was placed
  visited,         \* set of venue ids
  selectedPlaces,
  totalDistance,
  currentPlace,
  currentTime,
  hasHadLunch,
  hasHadDinner,
  anchorsToVisit,
  anchorIdx,       \* position of the for loop over anchorsToVisit
  inWhile,         \* inside the while loop towards anchorsToVisit[anchorIdx]
  uvCurrent,       \* updateUserVector: the vector passed to the last call
  uvNext,          \* the vector the last call returned
  uvPlace,         \* the venue of the last call
  uvAction,        \* "LIKE" or "DISLIKE"; "none" before the first call
  uvCalls          \* number of calls so far

inputs == <<allPlaces, options>>

locals == <<userVector, sequence, courseSteps, visited, selectedPlaces, totalDistance,
            currentPlace, currentTime, hasHadLunch, hasHadDinner, anchorsToVisit, anchorIdx, inWhile>>

feedback == <<uvCurrent, uvNext, uvPlace, uvAction, uvCalls>>

vars == <<allPlaces, options, pc, result, userVector, sequence, courseSteps, visited,
          selectedPlaces, totalDistance, currentPlace, currentTime, hasHadLunch, hasHadDinner,
          anchorsToVisit, anchorIdx, inWhile, uvCurrent, uvNext, uvPlace, uvAction, uvCalls>>

Pending == [kind |-> "pending"]

ReturnedNull == [kind |-> "null"]

Thrown(error) == [kind |-> "error", error |-> error]

StepRec(place, startTime, endTime, travelTime, arriveAt, via) ==
  [place |-> place, startTime |-> startTime, endTime |-> endTime, travelTime |-> travelTime,
   arriveAt |-> arriveAt, via |-> via]

isUserVector(prefs) == \A i \in 1..Len(VECTOR_DIMENSIONS) : VECTOR_DIMENSIONS[i] \in DOMAIN prefs

\* INITIAL_USER_VECTOR is not imported by courseGenerator.ts: evaluating it
\* for a legacy map is a ReferenceError
convertToUserVector(prefs) ==
  IF isUserVector(prefs) THEN [thrown |-> FALSE, vector |-> prefs]
  ELSE [thrown |-> TRUE, error |-> "ReferenceError"]

baseDuration == IF options.intensity = "relaxed" THEN 90 ELSE 60

durationEndTime == addMinutes(options.startTime, options.duration * 60 * 60)

maxEndTime ==
  IF options.endTime # NoTime THEN Min(options.endTime, durationEndTime) ELSE durationEndTime

targetEndLocation == options.endLocation

\* no call of updateUserVector was made
NoFeedback ==
  /\ uvCurrent = NeutralVector
  /\ uvNext = NeutralVector
  /\ uvPlace = NoPlace
  /\ uvAction = "none"
  /\ uvCalls = 0

Init ==
  /\ \E v \in Variants, startTime \in StartTimes, endLocation \in EndChoices,
        mustVisitPlaces \in SeqUpTo(AnchorChoices, MaxMustVisit),
        transport \in {"foot", "car"}, duration \in Durations :
       /\ allPlaces = v.allPlaces
       /\ options = MkOptions(v, startTime, endLocation, mustVisitPlaces, transport, duration)
  /\ pc = "start"
  /\ result = Pending
  /\ userVector = INITIAL_USER_VECTOR
  /\ sequence = <<>>
  /\ courseSteps = <<>>
  /\ visited = {}
  /\ selectedPlaces = <<>>
  /\ totalDistance = 0
  /\ currentPlace = NoPlace
  /\ currentTime = 0
  /\ hasHadLunch = FALSE
  /\ hasHadDinner = FALSE
  /\ anchorsToVisit = <<>>
  /\ anchorIdx = 1
  /\ inWhile = FALSE
  /\ NoFeedback

\* ------------------------------------------------------------------------
\* generateCourse, one action per path through its entry and per loop turn
\* ------------------------------------------------------------------------
HasPlace(p) == p.id # "null"

\* `if (!startLocation) return null'
ReturnNull ==
  /\ pc = "start"
  /\ ~HasPlace(options.startLocation)
  /\ pc' = "done"
  /\ result' = ReturnedNull
  /\ UNCHANGED <<feedback, inputs, locals>>

\* convertToUserVector throws for a legacy preference map
ThrowReferenceError ==
  /\ pc = "start"
  /\ HasPlace(options.startLocation)
  /\ convertToUserVector(options.userPreferences).thrown
  /\ pc' = "done"
  /\ result' = Thrown(convertToUserVector(options.userPreferences).error)
  /\ UNCHANGED <<feedback, inputs, locals>>

\* [...mustVisitPlaces] with the end venue pushed unless an entry has its id
AnchorsOf(mustVisitPlaces, endLocation) ==
  IF HasPlace(endLocation) /\ ~\E i \in 1..Len(mustVisitPlaces) : mustVisitPlaces[i].id = endLocation.id
    THEN Append(mustVisitPlaces, endLocation)
    ELSE mustVisitPlaces

\* the caller's mustVisitPlaces array after `anchorsToVisit.push', were the
\* anchors the caller's array itself and not a copy of it
MustVisitAfterPush_Aliased(mustVisitPlaces, anchors) == anchors

\* the caller's mustVisitPlaces array after `anchorsToVisit.push': the anchors
\* are the copy `[...mustVisitPlaces]', so the push does not reach it
MustVisitAfterPush(mustVisitPlaces, anchors) == mustVisitPlaces

\* the state before the loop over the anchors
Begin ==
  /\ pc = "start"
  /\ HasPlace(options.startLocation)
  /\ ~convertToUserVector(options.userPreferences).thrown
  /\ userVector' = convertToUserVector(options.userPreferences).vector
  /\ sequence' = <<options.startLocation>>
  /\ courseSteps' = <<StepRec(options.startLocation, options.startTime, options.startTime, 0,
                              options.startTime, "start")>>
  /\ visited' = {options.startLocation.id}
  /\ selectedPlaces' = <<options.startLocation>>
  /\ totalDistance' = 0
  /\ currentPlace' = options.startLocation
  /\ currentTime' = options.startTime
  /\ hasHadLunch' = FALSE
  /\ hasHadDinner' = FALSE
  /\ anchorsToVisit' = AnchorsOf(options.mustVisitPlaces, targetEndLocation)
  /\ anchorIdx' = 1
  /\ inWhile' = FALSE
  /\ pc' = IF Len(anchorsToVisit') = 0 THEN "fill" ELSE "anchors"
  /\ options' = [options EXCEPT !.mustVisitPlaces = MustVisitAfterPush(@, anchorsToVisit')]
  /\ UNCHANGED <<feedback, allPlaces, result>>

anchor == anchorsToVisit[anchorIdx]

\* the while loop with its `break' left out: the turn is taken again
NextAnchor_NoBreak ==
  /\ inWhile' = TRUE
  /\ pc' = "anchors"
  /\ UNCHANGED anchorIdx

\* the for loop moves to the next anchor, or ends
NextAnchor ==
  /\ anchorIdx' = anchorIdx + 1
  /\ inWhile' = FALSE
  /\ pc' = IF anchorIdx + 1 > Len(anchorsToVisit) THEN "fill" ELSE "anchors"

\* `if (visited.has(anchor.id)) continue'
AnchorSkip ==
  /\ pc = "anchors"
  /\ ~inWhile
  /\ anchor.id \in visited
  /\ NextAnchor
  /\ UNCHANGED <<feedback, inputs, result, userVector, sequence, courseSteps, visited, selectedPlaces,
                 totalDistance, currentPlace, currentTime, hasHadLunch, hasHadDinner, anchorsToVisit>>

\* arrival at the end venue from the current venue
ArriveAtEnd ==
  addMinutes(currentTime,
             travelMinutes(haversineDistance(currentPlace, targetEndLocation), options.transport))

EndStep ==
  StepRec(targetEndLocation, ArriveAtEnd, ArriveAtEnd,
          travelMinutes(haversineDistance(currentPlace, targetEndLocation), options.transport),
          ArriveAtEnd, "end")

\* the time is up at the head of the for loop: try the end venue, leave the loop
AnchorTimeExceeded ==
  /\ pc = "anchors"
  /\ ~inWhile
  /\ anchor.id \notin visited
  /\ currentTime >= maxEndTime
  /\ IF HasPlace(targetEndLocation) /\ targetEndLocation.id \notin visited /\ ArriveAtEnd <= maxEndTime
       THEN /\ sequence' = Append(sequence, targetEndLocation)
            /\ courseSteps' = Append(courseSteps, EndStep)
            /\ totalDistance' = totalDistance + haversineDistance(currentPlace, targetEndLocation)
            /\ visited' = visited \cup {targetEndLocation.id}
       ELSE UNCHANGED <<sequence, courseSteps, totalDistance, visited>>
  /\ pc' = "fill"
  /\ UNCHANGED <<feedback, inputs, result, userVector, selectedPlaces, currentPlace, currentTime,
                 hasHadLunch, hasHadDinner, anchorsToVisit, anchorIdx, inWhile>>

\* a turn of the while loop towards the anchor is taken
InLoop ==
  /\ pc = "anchors"
  /\ inWhile \/ (anchor.id \notin visited /\ currentTime < maxEndTime)

distanceToAnchor == haversineDistance(currentPlace, anchor)

TooFar == options.transport = "foot" /\ distanceToAnchor > FootLimit

\* the call of findPlaceForTime from the current position
Search ==
  findPlaceForTime(currentTime, currentPlace, allPlaces, visited, options.mealWindows,
                   options.transport, baseDuration, maxEndTime, hasHadLunch, hasHadDinner,
                   userVector, selectedPlaces, options.companion,
                   options.weather.isRainy, options.weather.temp)

\* the anchor is too far on foot and an intermediate stop was found
AnchorIntermediate ==
  /\ InLoop
  /\ TooFar
  /\ options.weather.defined
  /\ \E intermediate \in {Search} :
        /\ intermediate.found
        /\ sequence' = Append(sequence, intermediate.place)
        /\ selectedPlaces' = Append(selectedPlaces, intermediate.place)
        /\ courseSteps' = Append(courseSteps,
             StepRec(intermediate.place, intermediate.startAt, intermediate.endAt,
                     travelMinutes(intermediate.distanceKm, options.transport),
                     intermediate.arriveAt, "scored"))
        /\ totalDistance' = totalDistance + intermediate.distanceKm
        /\ visited' = visited \cup {intermediate.place.id}
        /\ currentPlace' = intermediate.place
        /\ currentTime' = intermediate.endAt
        /\ hasHadLunch' = (hasHadLunch \/ (intermediate.isMeal /\ intermediate.place.mealType = "lunch"))
        /\ hasHadDinner' = (hasHadDinner \/ (intermediate.isMeal /\ intermediate.place.mealType = "dinner"))
        /\ IF intermediate.endAt >= maxEndTime \/ intermediate.place.id = anchor.id
             THEN NextAnchor
             ELSE inWhile' = TRUE /\ pc' = "anchors" /\ UNCHANGED anchorIdx
  /\ UNCHANGED <<feedback, inputs, result, userVector, anchorsToVisit>>

\* meal flags after an anchor was placed
AnchorLunch(arriveAt) ==
  LET currentMinutes == minutesSinceMidnight(arriveAt)
      lunchWindow == LunchWindowOf(options.mealWindows)
  IN /\ anchor.type = "restaurant"
     /\ ~hasHadLunch
     /\ currentMinutes >= lunchWindow.startMinutes
     /\ currentMinutes <= lunchWindow.endMinutes

AnchorDinner(arriveAt) ==
  LET currentMinutes == minutesSinceMidnight(arriveAt)
      dinnerWindow == DinnerWindowOf(options.mealWindows)
  IN /\ anchor.type = "restaurant"
     /\ ~AnchorLunch(arriveAt)
     /\ ~hasHadDinner
     /\ currentMinutes >= dinnerWindow.startMinutes
     /\ currentMinutes <= dinnerWindow.endMinutes

\* the hop to the anchor itself; track: the anchor is pushed on selectedPlaces
HopToAnchor(via, track) ==
  LET travelTime == travelMinutes(distanceToAnchor, options.transport)
      arriveAt == addMinutes(currentTime, travelTime)
      duration == IF anchor.estimatedDuration # 0 THEN anchor.estimatedDuration ELSE baseDuration
      endAt == addMinutes(arriveAt, duration * 60)
  IN /\ IF endAt > maxEndTime
          THEN UNCHANGED <<sequence, selectedPlaces, courseSteps, totalDistance, visited,
                           currentPlace, currentTime, hasHadLunch, hasHadDinner>>
          ELSE /\ sequence' = Append(sequence, anchor)
               /\ selectedPlaces' = IF track THEN Append(selectedPlaces, anchor) ELSE selectedPlaces
               /\ courseSteps' = Append(courseSteps, StepRec(anchor, arriveAt, endAt, travelTime, arriveAt, via))
               /\ totalDistance' = totalDistance + distanceToAnchor
               /\ visited' = visited \cup {anchor.id}
               /\ currentPlace' = anchor
               /\ currentTime' = endAt
               /\ hasHadLunch' = (hasHadLunch \/ AnchorLunch(arriveAt))
               /\ hasHadDinner' = (hasHadDinner \/ AnchorDinner(arriveAt))
     /\ NextAnchor
     /\ UNCHANGED <<feedback, inputs, result, userVector, anchorsToVisit>>

\* the anchor is too far on foot and no intermediate stop was found
AnchorForced ==
  /\ InLoop
  /\ TooFar
  /\ options.weather.defined
  /\ ~Search.found
  /\ HopToAnchor("forced", FALSE)

\* the anchor can be reached directly
AnchorDirect ==
  /\ InLoop
  /\ ~TooFar
  /\ HopToAnchor("anchor", TRUE)

\* the time-fill loop takes another turn: `currentTime < targetEndTime' and at
\* least 30 minutes remain
FillRuns ==
  /\ pc = "fill"
  /\ currentTime < maxEndTime
  /\ ~(maxEndTime - currentTime < 30 * 60)

\* weather.isRainy with no weather object, at either call of findPlaceForTime
ThrowTypeError ==
  /\ ~options.weather.defined
  /\ IF pc = "fill" THEN FillRuns ELSE InLoop /\ TooFar
  /\ pc' = "done"
  /\ result' = Thrown("TypeError")
  /\ UNCHANGED <<feedback, inputs, locals>>

\* a turn of the time-fill loop that appends the selected venue
FillStep ==
  /\ FillRuns
  /\ options.weather.defined
  /\ \E nextPlace \in {Search} :
        /\ nextPlace.found
        /\ ~(nextPlace.endAt > maxEndTime)
        /\ sequence' = Append(sequence, nextPlace.place)
        /\ selectedPlaces' = Append(selectedPlaces, nextPlace.place)
        /\ courseSteps' = Append(courseSteps,
             StepRec(nextPlace.place, nextPlace.startAt, nextPlace.endAt,
                     travelMinutes(nextPlace.distanceKm, options.transport),
                     nextPlace.arriveAt, "scored"))
        /\ totalDistance' = totalDistance + nextPlace.distanceKm
        /\ visited' = visited \cup {nextPlace.place.id}
        /\ currentPlace' = nextPlace.place
        /\ currentTime' = nextPlace.endAt
        /\ hasHadLunch' = (hasHadLunch \/ (nextPlace.isMeal /\ nextPlace.place.mealType = "lunch"))
        /\ hasHadDinner' = (hasHadDinner \/ (nextPlace.isMeal /\ nextPlace.place.mealType = "dinner"))
  /\ UNCHANGED <<feedback, inputs, pc, result, userVector, anchorsToVisit, anchorIdx, inWhile>>

\* the result with Math.floor in the place of Math.round
Course_Truncates(seq, steps, distance) ==
  LET finalTime == IF Len(steps) > 0 THEN steps[Len(steps)].endTime ELSE currentTime
  IN [kind |-> "course", sequence |-> seq, steps |-> steps,
      totalDistance |-> distance \div 6,
      estimatedDuration |-> (finalTime - options.startTime) \div 60]

\* the result with the distance from the first venue to the last one in the
\* place of the accumulated distance
Course_StraightLine(seq, steps, distance) ==
  LET finalTime == IF Len(steps) > 0 THEN steps[Len(steps)].endTime ELSE currentTime
      elapsed == finalTime - options.startTime
  IN [kind |-> "course", sequence |-> seq, steps |-> steps,
      totalDistance |-> (haversineDistance(seq[1], seq[Len(seq)]) + 3) \div 6,
      estimatedDuration |-> IF elapsed >= 0 THEN (elapsed + 30) \div 60 ELSE -((-elapsed + 30) \div 60)]

Course(seq, steps, distance) ==
  LET finalTime == IF Len(steps) > 0 THEN steps[Len(steps)].endTime ELSE currentTime
  IN [kind |-> "course", sequence |-> seq, steps |-> steps,
      \* Math.round(totalDistance * 10) / 10, in tenths of a km
      totalDistance |-> (distance + 3) \div 6,
      \* Math.round(milliseconds / 60000), in minutes
      estimatedDuration |-> (finalTime - options.startTime + 30) \div 60]

\* the time-fill loop ends; the end venue is appended if it is still missing
\* and can be reached in time; the course is returned
Finish ==
  /\ pc = "fill"
  /\ IF FillRuns THEN options.weather.defined ELSE TRUE
  /\ LET nextPlace == IF FillRuns THEN Search ELSE NoResult
         tooLate == IF nextPlace.found THEN nextPlace.endAt > maxEndTime ELSE FALSE
         canAppend == /\ HasPlace(targetEndLocation)
                      /\ targetEndLocation.id \notin visited
                      /\ ArriveAtEnd <= maxEndTime
         \* the selected venue would exceed the time limit: append inside the loop,
         \* which marks the end venue visited
         inLoop == tooLate /\ canAppend
         \* `Ensure end location is last if specified'
         atEnd == ~inLoop /\ canAppend
     IN /\ IF FillRuns THEN ~nextPlace.found \/ tooLate ELSE TRUE
        /\ sequence' = IF inLoop \/ atEnd THEN Append(sequence, targetEndLocation) ELSE sequence
        /\ courseSteps' = IF inLoop \/ atEnd THEN Append(courseSteps, EndStep) ELSE courseSteps
        /\ totalDistance' = IF inLoop \/ atEnd
                              THEN totalDistance + haversineDistance(currentPlace, targetEndLocation)
                              ELSE totalDistance
        /\ visited' = IF inLoop THEN visited \cup {targetEndLocation.id} ELSE visited
  /\ result' = Course(sequence', courseSteps', totalDistance')
  /\ pc' = "done"
  /\ UNCHANGED <<feedback, inputs, userVector, selectedPlaces, currentPlace, currentTime, hasHadLunch,
                 hasHadDinner, anchorsToVisit, anchorIdx, inWhile>>

Next ==
  \/ ReturnNull
  \/ ThrowReferenceError
  \/ Begin
  \/ AnchorSkip
  \/ AnchorTimeExceeded
  \/ AnchorIntermediate
  \/ AnchorForced
  \/ AnchorDirect
  \/ ThrowTypeError
  \/ FillStep
  \/ Finish

Spec == Init /\ [][Next]_vars

\* the calls whose termination is followed to the end: every variant of the
\* options, with at most one must-visit venue
FairInit ==
  /\ \E v \in Variants, startTime \in StartTimes, endLocation \in EndChoices,
        mustVisitPlaces \in SeqUpTo(AnchorChoices, 1),
        transport \in {"foot", "car"}, duration \in Durations :
       /\ allPlaces = v.allPlaces
       /\ options = MkOptions(v, startTime, endLocation, mustVisitPlaces, transport, duration)
  /\ pc = "start"
  /\ result = Pending
  /\ userVector = INITIAL_USER_VECTOR
  /\ sequence = <<>>
  /\ courseSteps = <<>>
  /\ visited = {}
  /\ selectedPlaces = <<>>
  /\ totalDistance = 0
  /\ currentPlace = NoPlace
  /\ currentTime = 0
  /\ hasHadLunch = FALSE
  /\ hasHadDinner = FALSE
  /\ anchorsToVisit = <<>>
  /\ anchorIdx = 1
  /\ inWhile = FALSE
  /\ NoFeedback

\* generateCourse is sequential code: a statement that can run does run
FairSpec == FairInit /\ [][Next]_vars /\ WF_vars(Next)

Returned == pc = "done" /\ result.kind = "course"

\* ------------------------------------------------------------------------
\* updateUserVector applied repeatedly: the vector returned by a call is the
\* one passed to the next call
\* ------------------------------------------------------------------------
\* values of a dimension in [0, 1], on and off the grid of thousandths
DimensionValues == {0, 4, 996, 5000, 9004, 9996, 10000}

\* the neutral vector, and the vectors with any values on three dimensions
StartVectors ==
  {[NeutralVector EXCEPT !["Meat"] = a, !["Quiet"] = b, !["Nature"] = c] :
     a \in DimensionValues, b \in DimensionValues, c \in {5000, 9996}}

VectorInit ==
  /\ allPlaces = Catalogue
  /\ options = MkOptions(BaseVariant, 10 * 3600, NoPlace, <<>>, "foot", 6)
  /\ pc = "start"
  /\ result = Pending
  /\ userVector = INITIAL_USER_VECTOR
  /\ sequence = <<>>
  /\ courseSteps = <<>>
  /\ visited = {}
  /\ selectedPlaces = <<>>
  /\ totalDistance = 0
  /\ currentPlace = NoPlace
  /\ currentTime = 0
  /\ hasHadLunch = FALSE
  /\ hasHadDinner = FALSE
  /\ anchorsToVisit = <<>>
  /\ anchorIdx = 1
  /\ inWhile = FALSE
  /\ uvNext \in StartVectors
  /\ uvCurrent = uvNext
  /\ uvPlace = NoPlace
  /\ uvAction = "none"
  /\ uvCalls = 0

\* one call updateUserVector(place, action, current) on the vector last returned
Update(place, action) ==
  /\ uvCalls < MaxCalls
  /\ uvCurrent' = uvNext
  /\ uvNext' = updateUserVector(place, action, uvNext)
  /\ uvPlace' = place
  /\ uvAction' = action
  /\ uvCalls' = uvCalls + 1
  /\ UNCHANGED <<inputs, pc, result, locals>>

Like == \E place \in Venues : Update(place, "LIKE")

Dislike == \E place \in Venues : Update(place, "DISLIKE")

VectorNext ==
  \/ Like
  \/ Dislike

VectorSpec == VectorInit /\ [][VectorNext]_vars

\* ------------------------------------------------------------------------
\* Properties of the returned itinerary
\* ------------------------------------------------------------------------
Ids(seq) == {seq[i].id : i \in 1..Len(seq)}

\* C1: in a returned itinerary no venue id occurs more than once, neither in
\* steps nor in sequence, whatever the must-visit list and the end venue are
C1_NoVenueTwice ==
  Returned =>
    /\ \A i, j \in 1..Len(result.steps) :
         i # j => result.steps[i].place.id # result.steps[j].place.id
    /\ \A i, j \in 1..Len(result.sequence) :
         i # j => result.sequence[i].id # result.sequence[j].id

\* a course of four steps or more whose must-visit list names the end venue
\* twice, the end venue being in the course
C1_Witness ==
  /\ Returned
  /\ Len(options.mustVisitPlaces) = 2
  /\ options.mustVisitPlaces[1].id = options.mustVisitPlaces[2].id
  /\ options.mustVisitPlaces[1].id = options.endLocation.id
  /\ options.endLocation.id # options.startLocation.id
  /\ options.endLocation.id \in Ids(result.sequence)
  /\ Len(result.steps) >= 4

C3_StartsAfterPreviousEndPlusTravel ==
  Returned =>
    \A i \in 2..Len(result.steps) :
      /\ result.steps[i].startTime >= result.steps[i - 1].startTime
      /\ result.steps[i].endTime >= result.steps[i].startTime
      /\ result.steps[i].startTime >= result.steps[i - 1].endTime + result.steps[i].travelTime

\* the second of the day of a date
SecondOfDay(date) == date % 86400

\* the meal window a venue's mealType refers to
WindowOfMealType(mealType) ==
  IF mealType = "lunch" THEN LunchWindowOf(options.mealWindows) ELSE DinnerWindowOf(options.mealWindows)

\* C4 as stated, the window taken with both of its ends: every step placed by
\* the scored search whose venue carries mealType lunch (dinner) has its
\* arrival time inside the lunch (dinner) window
C4_MealStepsArriveInsideWindow ==
  Returned =>
    \A i \in 1..Len(result.steps) :
      (result.steps[i].via = "scored" /\ result.steps[i].place.mealType \in {"lunch", "dinner"}) =>
        /\ SecondOfDay(result.steps[i].arriveAt)
             >= WindowOfMealType(result.steps[i].place.mealType).startMinutes * 60
        /\ SecondOfDay(result.steps[i].arriveAt)
             <= WindowOfMealType(result.steps[i].place.mealType).endMinutes * 60

\* C5 as stated, for an end venue other than the start venue: if the end
\* venue is in the returned itinerary it is its last step
C5_EndVenueIsLastStep ==
  (Returned /\ HasPlace(options.endLocation)
     /\ options.endLocation.id # options.startLocation.id
     /\ options.endLocation.id \in Ids(result.sequence)) =>
    /\ result.steps[Len(result.steps)].place.id = options.endLocation.id
    /\ result.sequence[Len(result.sequence)].id = options.endLocation.id

\* the end time of a visit of `place' reached directly from the start venue
DirectVisitEnd(place) ==
  addMinutes(addMinutes(options.startTime,
                        travelMinutes(haversineDistance(options.startLocation, place), options.transport)),
             (IF place.estimatedDuration # 0 THEN place.estimatedDuration ELSE baseDuration) * 60)

\* C6 as stated: on foot, a must-visit anchor farther than 1.5 km from the
\* start venue is in the returned itinerary whenever going to it directly from
\* the start and staying for its visit ends by the maximum end time
C6_FarAnchorIsNotDropped ==
  (Returned /\ options.transport = "foot" /\ Len(options.mustVisitPlaces) >= 1) =>
    LET first == options.mustVisitPlaces[1]
    IN (haversineDistance(options.startLocation, first) > FootLimit
        /\ DirectVisitEnd(first) <= maxEndTime) =>
         first.id \in Ids(result.sequence)

\* the index of the venue with this id in the sequence, 0 if it is not there
RECURSIVE IndexFrom(_, _, _)
IndexFrom(seq, id, i) ==
  IF i > Len(seq) THEN 0 ELSE IF seq[i].id = id THEN i ELSE IndexFrom(seq, id, i + 1)

IndexOf(seq, id) == IndexFrom(seq, id, 1)

\* C7 as stated, for anchors other than the start venue: the must-visit
\* anchors of the returned itinerary are in the relative order of the
\* must-visit list, and none of them comes after the end venue
C7_AnchorsInOrderBeforeEnd ==
  Returned =>
    LET seq == result.sequence
        mv == options.mustVisitPlaces
        placed(p) == p.id # options.startLocation.id /\ IndexOf(seq, p.id) > 0
    IN /\ \A i, j \in 1..Len(mv) :
            (i < j /\ mv[i].id # mv[j].id /\ placed(mv[i]) /\ placed(mv[j])
               /\ IndexOf(mv, mv[i].id) = i /\ IndexOf(mv, mv[j].id) = j) =>
              IndexOf(seq, mv[i].id) < IndexOf(seq, mv[j].id)
       /\ \A i \in 1..Len(mv) :
            (placed(mv[i]) /\ HasPlace(options.endLocation) /\ placed(options.endLocation)) =>
              IndexOf(seq, mv[i].id) <= IndexOf(seq, options.endLocation.id)

\* the step appended by this transition was placed by the scored search
ScoredAppend ==
  /\ Len(courseSteps') = Len(courseSteps) + 1
  /\ courseSteps'[Len(courseSteps')].via = "scored"

\* `locked' is unvisited and passes the filter and the time checks of the
\* step that opens at the current time
ValidForStep(locked) ==
  LET step == StepForTime(currentTime, options.mealWindows, hasHadLunch, hasHadDinner)
  IN /\ locked.id \notin visited
     /\ IsCandidate(locked, step, visited)
     /\ Timing(locked, step, currentTime, currentPlace, options.transport, baseDuration, maxEndTime).ok

\* C8 as stated: when the scored search fills sequence index k and
\* lockedSteps[k] names an unvisited venue valid for that step, the venue
\* placed at index k is the locked one
C8_LockedStepIsPlaced ==
  [][(/\ ScoredAppend
      /\ Len(sequence) \in DOMAIN options.lockedSteps
      /\ ValidForStep(options.lockedSteps[Len(sequence)]))
       => sequence'[Len(sequence')].id = options.lockedSteps[Len(sequence)].id]_vars

\* C9 as stated: the call returns null iff no start venue is supplied, and
\* with a start venue it returns an itinerary and does not fail
C9_NullIffNoStartVenue ==
  pc = "done" =>
    /\ result.kind = "null" <=> ~HasPlace(options.startLocation)
    /\ HasPlace(options.startLocation) => result.kind = "course"

\* steps i - 1 and i are farther apart than the walking limit
OverLimit(steps, i) == haversineDistance(steps[i - 1].place, steps[i].place) > FootLimit

\* C10: on foot, the second venue of two consecutive steps more than 1.5 km
\* apart is a must-visit anchor or the end venue, and during anchor routing
\* a hop over the limit is taken only when the scored search from the current
\* position returned no intermediate stop
C10_OverLimitHopsOnlyToAnchors ==
  /\ [](options.transport = "foot" =>
          \A i \in 2..Len(courseSteps) :
            OverLimit(courseSteps, i) =>
              courseSteps[i].place.id \in Ids(options.mustVisitPlaces) \cup {options.endLocation.id})
  /\ [][(/\ pc = "anchors"
         /\ options.transport = "foot"
         /\ Len(courseSteps') = Len(courseSteps) + 1
         /\ OverLimit(courseSteps', Len(courseSteps')))
          => IF options.weather.defined THEN ~Search.found ELSE FALSE]_vars

\* a returned walking itinerary in which a must-visit anchor was reached by a
\* hop over the limit after intermediate stops had been inserted on the way
C10_Witness ==
  /\ Returned
  /\ options.transport = "foot"
  /\ \E i \in 3..Len(result.steps) :
       /\ OverLimit(result.steps, i)
       /\ result.steps[i].via = "forced"
       /\ result.steps[i].place.id \in Ids(options.mustVisitPlaces)
       /\ result.steps[i - 1].via = "scored"

\* the scenario of C11 and C12: start at 10:00, the default meal windows, no
\* anchors, no end venue, no explicit end time
MorningScenario(duration) ==
  /\ options.startTime = 10 * 3600
  /\ options.duration = duration
  /\ options.endTime = NoTime
  /\ options.mustVisitPlaces = <<>>
  /\ ~HasPlace(options.endLocation)
  /\ options.mealWindows = [lunch |-> DEFAULT_LUNCH_WINDOW, dinner |-> DEFAULT_DINNER_WINDOW]

\* every venue of the pool can be reached from every other one, and the pool
\* has a lunch restaurant and a venue of another category
AllReachable ==
  /\ \E i \in 1..Len(allPlaces) : allPlaces[i].type = "restaurant" /\ allPlaces[i].mealType = "lunch"
  /\ \E i \in 1..Len(allPlaces) : allPlaces[i].type \in {"activity", "cafe", "culture", "shopping"}
  /\ options.transport = "foot" =>
       \A i, j \in 1..Len(allPlaces) : haversineDistance(allPlaces[i], allPlaces[j]) <= FootLimit

\* the steps of the itinerary whose venue carries this mealType
StepsOfMealType(steps, mealType) == {i \in 1..Len(steps) : steps[i].place.mealType = mealType}

\* C11 as stated: from 10:00 with duration 6 h, default meal windows, no
\* anchors and a pool whose lunch restaurants and other venues are reachable
\* from everywhere, the itinerary has exactly one lunch step, no dinner step
\* and no step that ends after 16:00
C11_OneLunchNoDinnerBy16 ==
  (Returned /\ MorningScenario(6) /\ AllReachable) =>
    /\ Cardinality(StepsOfMealType(result.steps, "lunch")) = 1
    /\ StepsOfMealType(result.steps, "dinner") = {}
    /\ \A i \in 1..Len(result.steps) : result.steps[i].endTime <= 16 * 3600

\* C12 as stated: from 10:00 with duration 3 h, default meal windows and no
\* anchors, no step carries mealType lunch or dinner
C12_NoMealStepInThreeHours ==
  (Returned /\ MorningScenario(3)) =>
    /\ StepsOfMealType(result.steps, "lunch") = {}
    /\ StepsOfMealType(result.steps, "dinner") = {}

\* the scenario of C13: the pool is the start venue and one activity venue
\* within the walking limit; start at 10:00, 2 hours, on foot, no anchors, no
\* end venue
TwoVenueScenario ==
  /\ Len(allPlaces) = 2
  /\ allPlaces[1] = options.startLocation
  /\ allPlaces[2].type = "activity"
  /\ allPlaces[2].estimatedDuration # 0
  /\ haversineDistance(allPlaces[1], allPlaces[2]) <= FootLimit
  /\ options.startTime = 10 * 3600
  /\ options.duration = 2
  /\ options.endTime = NoTime
  /\ options.transport = "foot"
  /\ options.mustVisitPlaces = <<>>
  /\ ~HasPlace(options.endLocation)

\* seconds of the hop from the start venue to the other venue plus the stay there
HopAndStay ==
  travelMinutes(haversineDistance(allPlaces[1], allPlaces[2]), "foot") + allPlaces[2].estimatedDuration * 60

\* C13 as stated: the result is [A, B], totalDistance is the A-B distance
\* rounded to one decimal and estimatedDuration is exactly the travel time of
\* the hop plus the stay at B
C13_TwoVenueCourseExact ==
  (Returned /\ TwoVenueScenario) =>
    /\ result.sequence = allPlaces
    /\ result.totalDistance * 6 - 3 <= haversineDistance(allPlaces[1], allPlaces[2])
    /\ haversineDistance(allPlaces[1], allPlaces[2]) < result.totalDistance * 6 + 3
    /\ result.estimatedDuration * 60 = HopAndStay

\* C13 amended: estimatedDuration is the travel time of the hop plus the stay
\* at B rounded to the nearest whole minute
C13_TwoVenueCourseRounded ==
  (Returned /\ TwoVenueScenario) =>
    /\ result.sequence = allPlaces
    /\ result.totalDistance * 6 - 3 <= haversineDistance(allPlaces[1], allPlaces[2])
    /\ haversineDistance(allPlaces[1], allPlaces[2]) < result.totalDistance * 6 + 3
    /\ result.estimatedDuration * 60 - 30 <= HopAndStay
    /\ HopAndStay < result.estimatedDuration * 60 + 30

\* the two-venue course was returned, its hop taking a fraction of a minute
C13_Witness ==
  /\ Returned
  /\ TwoVenueScenario
  /\ Len(result.steps) = 2
  /\ result.steps[2].travelTime % 60 # 0

\* C14: every dimension of the vector updateUserVector returns is in [0, 1];
\* a LIKE lowers no dimension and a DISLIKE raises none, from the neutral
\* vector and from any vector in [0, 1], after any number of updates
C14_VectorStaysInUnitRange ==
  /\ \A dim \in Dims : uvCurrent[dim] >= 0 /\ uvCurrent[dim] <= 10000
  /\ \A dim \in Dims : uvNext[dim] >= 0 /\ uvNext[dim] <= 10000
  /\ uvAction = "LIKE" => \A dim \in Dims : uvNext[dim] >= uvCurrent[dim]
  /\ uvAction = "DISLIKE" => \A dim \in Dims : uvNext[dim] <= uvCurrent[dim]

\* a like held one dimension at 1, and the dislike after it holds another at 0
C14_Witness ==
  /\ uvCalls >= 2
  /\ uvAction = "DISLIKE"
  /\ \E dim \in Dims : uvCurrent[dim] = 10000 /\ uvNext[dim] = 8000
  /\ \E dim \in Dims : uvCurrent[dim] = 1000 /\ uvNext[dim] = 0

\* the dimensions the feature extraction detected for the venue: those it
\* moved off the baseline 0.5
Represents(place, dim) == placeToFeatureVector(place)[dim] # 5

\* C15 as stated: a dimension the venue does not represent is the same in the
\* returned vector as in the vector passed
C15_OtherDimensionsUnchanged ==
  uvAction # "none" =>
    \A dim \in Dims : ~Represents(uvPlace, dim) => uvNext[dim] = uvCurrent[dim]

\* C16: no step of generateCourse changes the venue pool or the options (the
\* must-visit list, the locked steps, the start and end times and the
\* preference vector among them)
C16_InputsNotModified == [][allPlaces' = allPlaces /\ options' = options]_vars

\* a returned course of a call that pushed the end venue onto its anchors
C16_Witness ==
  /\ Returned
  /\ HasPlace(options.endLocation)
  /\ Len(options.mustVisitPlaces) >= 1
  /\ anchorsToVisit = Append(options.mustVisitPlaces, options.endLocation)
  /\ Len(result.steps) >= 4

\* C17 as stated: a call whose options carry no weather snapshot, made with a
\* start venue and a preference vector, returns an itinerary and does not fail
C17_NoWeatherReturnsCourse ==
  (/\ pc = "done"
   /\ ~options.weather.defined
   /\ HasPlace(options.startLocation)
   /\ ~convertToUserVector(options.userPreferences).thrown)
  => result.kind = "course"

\* a turn of the anchor-routing while loop or of the time-fill loop that stays
\* in its loop
StaysInLoop ==
  /\ pc \in {"anchors", "fill"}
  /\ pc' = pc
  /\ anchorIdx' = anchorIdx

\* C18: generateCourse terminates; every turn of the anchor-routing loop and
\* of the time-fill loop either leaves its loop or adds one venue that was not
\* visited before
C18_Terminates ==
  /\ <>(pc = "done")
  /\ [][StaysInLoop =>
          /\ visited \subseteq visited'
          /\ Cardinality(visited') = Cardinality(visited) + 1
          /\ Len(courseSteps') = Len(courseSteps) + 1
          /\ courseSteps'[Len(courseSteps')].place.id \notin visited]_vars

\* a returned course on foot for which the while loop took a turn with an
\* intermediate stop before it reached its anchor, and the time-fill loop a
\* turn after it
C18_Witness ==
  /\ Returned
  /\ options.transport = "foot"
  /\ \E i, j, k \in 1..Len(result.steps) :
       /\ i < j /\ j < k
       /\ result.steps[i].via = "scored"
       /\ result.steps[j].via \in {"anchor", "forced"}
       /\ result.steps[k].via = "scored"

\* sum of the great-circle distances of the hops between steps i - 1 and i,
\* from step i on
RECURSIVE HopSum(_, _)
HopSum(steps, i) ==
  IF i > Len(steps) THEN 0
  ELSE haversineDistance(steps[i - 1].place, steps[i].place) + HopSum(steps, i + 1)

\* seconds from startTime to the end of the final step
Elapsed == result.steps[Len(result.steps)].endTime - options.startTime

\* totalDistance, in tenths of a km, is the sum of the hops rounded to one decimal
DistanceIsRoundedHopSum ==
  /\ result.totalDistance * 6 - 3 <= HopSum(result.steps, 2)
  /\ HopSum(result.steps, 2) < result.totalDistance * 6 + 3

\* C19 as stated: totalDistance is the sum of the distances of the consecutive
\* hops rounded to one decimal, and estimatedDuration is exactly the time from
\* startTime to the end of the final step
C19_TotalsExact ==
  Returned =>
    /\ DistanceIsRoundedHopSum
    /\ result.estimatedDuration * 60 = Elapsed

\* C19 amended: estimatedDuration is the time from startTime to the end of the
\* final step rounded to the nearest whole minute
C19_TotalsRounded ==
  Returned =>
    /\ DistanceIsRoundedHopSum
    /\ result.estimatedDuration * 60 - 30 <= Elapsed
    /\ Elapsed < result.estimatedDuration * 60 + 30

\* a returned course of four hops or more whose distance and whose elapsed time
\* were both rounded
C19_Witness ==
  /\ Returned
  /\ Len(result.steps) >= 5
  /\ HopSum(result.steps, 2) % 6 # 0
  /\ Elapsed % 60 # 0

\* the score of venue p as a candidate for the next step from the current position
ScoreHere(p) ==
  calculatePlaceScore(p,
    [userVector |-> userVector, isRainy |-> options.weather.isRainy,
     temperature |-> options.weather.temp, distanceKm |-> haversineDistance(currentPlace, p),
     selectedPlaces |-> selectedPlaces, companion |-> options.companion,
     transport |-> options.transport])

\* the venue of the step this transition appends
Chosen == courseSteps'[Len(courseSteps')].place

\* C20: the venue a scored selection appends is a feasible candidate of the
\* highest score among the feasible candidates of the pool, and every feasible
\* candidate before it in the pool has a strictly lower score
C20_BestScoreFirstInPoolWins ==
  [][ScoredAppend =>
       /\ ValidForStep(Chosen)
       /\ \E k \in 1..Len(allPlaces) :
            /\ allPlaces[k] = Chosen
            /\ \A i \in 1..Len(allPlaces) :
                 ValidForStep(allPlaces[i]) =>
                   /\ ScoreHere(allPlaces[i]) <= ScoreHere(Chosen)
                   /\ i < k => ScoreHere(allPlaces[i]) < ScoreHere(Chosen)]_vars

\* the last scored selection had two candidates that differ in their ids
\* only, T before B in the pool, and chose T
C20_Witness ==
  /\ allPlaces = TwinPool
  /\ [PlaceB EXCEPT !.id = PlaceT.id] = PlaceT
  /\ Len(courseSteps) >= 2
  /\ courseSteps[Len(courseSteps)].via = "scored"
  /\ courseSteps[Len(courseSteps)].place = PlaceT
  /\ PlaceB.id \notin visited

\* time t, a minute of the day, is in the meal window
InMealWindow(t, window) == t >= window.startMinutes /\ t <= window.endMinutes

\* the categories searched at minute t of the day with the meal flags given:
\* venue p is of a category the step searches. `typed' asks of a restaurant
\* that it carries the meal type of the step
SearchedAt(p, t, hadLunch, hadDinner, typed) ==
  LET lunch == LunchWindowOf(options.mealWindows)
      dinner == DinnerWindowOf(options.mealWindows)
  IN IF ~hadLunch /\ InMealWindow(t, lunch)
       THEN p.type = "restaurant" /\ (p.mealType = "lunch" \/ (~typed /\ p.mealType = "none"))
     ELSE IF ~hadDinner /\ InMealWindow(t, dinner)
       THEN p.type = "restaurant" /\ (p.mealType = "dinner" \/ (~typed /\ p.mealType = "none"))
     ELSE IF t > lunch.endMinutes /\ t < dinner.startMinutes
       THEN p.type \in {"cafe", "bakery"}
     ELSE p.type \in {"activity", "cafe", "culture", "shopping"}

C22_DefaultStayIsSixtyMinutes ==
  \A i \in 1..Len(courseSteps) :
    (courseSteps[i].via \notin {"start", "end"} /\ courseSteps[i].place.estimatedDuration = 0)
      => courseSteps[i].endTime = courseSteps[i].startTime + 60 * 60

\* the number of venues of the category of p in the list the diversity term
\* is computed from
TypeCount(p) == Cardinality({i \in 1..Len(selectedPlaces) : selectedPlaces[i].type = p.type})

\* the multipliers of the first to the fourth venue of a category, times 10^4
DiversityMultipliers == <<10000, 6000, 3600, 2160>>

C24_MealWindowIsHalfOpen ==
  [][(ScoredAppend /\ Chosen.type = "restaurant") =>
       \E window \in {LunchWindowOf(options.mealWindows), DinnerWindowOf(options.mealWindows)} :
         /\ window.startMinutes <= minutesSinceMidnight(currentTime)
         /\ minutesSinceMidnight(currentTime) < window.endMinutes
         /\ minutesSinceMidnight(courseSteps'[Len(courseSteps')].arriveAt) < window.endMinutes]_vars

\* the steps at which the scored search placed a restaurant and that start
\* between minute `first' and minute `last' of the day
ScoredMealSteps(steps, first, last) ==
  {i \in 1..Len(steps) :
     /\ steps[i].via = "scored"
     /\ steps[i].place.type = "restaurant"
     /\ minutesSinceMidnight(steps[i].startTime) >= first
     /\ minutesSinceMidnight(steps[i].startTime) <= last}

\* C25 as stated: the scored search places at most one restaurant as the lunch
\* step and at most one as the dinner step of an itinerary
C25_OneLunchOneDinner ==
  /\ Cardinality(ScoredMealSteps(courseSteps, LunchWindowOf(options.mealWindows).startMinutes,
                                 LunchWindowOf(options.mealWindows).endMinutes)) <= 1
  /\ Cardinality(ScoredMealSteps(courseSteps, DinnerWindowOf(options.mealWindows).startMinutes,
                                 DinnerWindowOf(options.mealWindows).endMinutes)) <= 1

\* C26 as stated: at a scored selection the list of venues the diversity term
\* is computed from has exactly the venues appended to the itinerary after the
\* start step
C26_DiversityListIsItinerary ==
  [][ScoredAppend =>
       /\ Len(selectedPlaces) = Len(sequence) - 1
       /\ Ids(selectedPlaces) = {sequence[i].id : i \in 2..Len(sequence)}]_vars

\* C27 as stated: the call onDislike makes passes the pool without the
\* disliked venue V; the itinerary it returns holds no venue V that is not in
\* the pool it was passed, also when V is a must-visit anchor or the end venue
C27_DislikedVenueIsNotInCourse ==
  Returned =>
    \A V \in Venues :
      (V.id \notin Ids(allPlaces) /\ V.id # options.startLocation.id)
        => V.id \notin Ids(result.sequence)

\* The vector the conversion of a legacy map is meant to build: 0.5 in every
\* dimension, and the legacy weight, capped at 1.0, in the seven mapped ones
LegacyKeyOf(d) == IF d = "Nature" THEN "Outdoor" ELSE IF d = "Luxury" THEN "Gourmet" ELSE d

ConvertedLegacy(prefs) ==
  [d \in Dims |->
     IF d \in {"Meat", "Seafood", "Quiet", "Active", "Indoor", "Nature", "Luxury"}
        /\ LegacyKeyOf(d) \in DOMAIN prefs
     THEN Min(10, prefs[LegacyKeyOf(d)])
     ELSE INITIAL_USER_VECTOR[d]]

\* C29 as stated: a call with a start venue and a legacy tag-weight map as
\* userPreferences works on the converted ten-dimension vector and returns an
\* itinerary
C29_LegacyMapIsConvertedAndCourseReturned ==
  (/\ pc = "done"
   /\ HasPlace(options.startLocation)
   /\ ~isUserVector(options.userPreferences))
  => /\ result.kind = "course"
     /\ userVector = ConvertedLegacy(options.userPreferences)

\* C30: in a returned itinerary a step whose venue is a landmark or a bar was
\* not chosen by the scored search: it is the start step, a must-visit anchor
\* or the end venue
C30_LandmarkAndBarOnlyAsStartAnchorOrEnd ==
  Returned =>
    \A i \in 1..Len(result.steps) :
      result.steps[i].place.type \in {"landmark", "bar"} =>
        /\ result.steps[i].via # "scored"
        /\ \/ i = 1
           \/ result.steps[i].place.id \in Ids(options.mustVisitPlaces)
           \/ result.steps[i].place.id = options.endLocation.id

\* an itinerary from a pool that holds a landmark and a bar besides the start
\* venue: the start step is a landmark, a later step was chosen by the scored
\* search, and neither the other landmark nor the bar is in the itinerary
C30_Witness ==
  /\ Returned
  /\ {"M", "N"} \subseteq Ids(allPlaces)
  /\ result.steps[1].place.type = "landmark"
  /\ \E i \in 2..Len(result.steps) : result.steps[i].via = "scored"
  /\ {"M", "N"} \cap Ids(result.sequence) = {}

====
